---------------------------- MODULE Spec2Model ----------------------------
(***************************************************************************)
(* Model of logs-analysis/logs_analysis.py: a reporting script over the    *)
(* PostgreSQL database "news" (tables log, articles, authors).             *)
(*                                                                         *)
(* Two layers are modelled.                                                *)
(*  - The Python control flow of lines 78-156 is a state machine over the  *)
(*    position in the running function, the connections the process        *)
(*    holds, the value of the local `cursor`, the exception raised and     *)
(*    standard output (specification Spec).  The file is run as a script   *)
(*    (action main), or imported and its public functions called (one     *)
(*    action per function); the runtime closes a connection that the       *)
(*    importing code no longer references.  connect() returns the bound    *)
(*    method `conn.cursor` instead of a cursor, so the first               *)
(*    cursor.execute of every function raises AttributeError.  The lines   *)
(*    a function runs when that call succeeds are the other branch of the  *)
(*    same action; the rows a print function prints after its select       *)
(*    function returned and the later calls of the script (lines 126-128,  *)
(*    135-137, 144-149, 154-156) are reached in no run and have no action. *)
(*  - The SQL statements of lines 9-73 are operators over the contents of  *)
(*    the tables, evaluated the way PostgreSQL evaluates them when they    *)
(*    reach it: a table is a bag of rows, GROUP BY yields one row per      *)
(*    distinct key, ORDER BY leaves the order of rows with equal keys open *)
(*    (every such order is a possible result), a view read without an      *)
(*    outer ORDER BY yields its rows in the view's own order, LIMIT keeps  *)
(*    a prefix, numeric division is exact (specifications SpecArticles,    *)
(*    SpecAuthors, SpecErrors, whose actions are the database executing    *)
(*    one statement on tables drawn from bounded sets).                    *)
(***************************************************************************)
EXTENDS Integers, Sequences, FiniteSets, Bags, TLC

VARIABLES
    log,        \* table log(path, status, time): a bag of rows
    articles,   \* table articles(slug, title, author): rows, slug unique
    authors,    \* table authors(id, name): rows, id unique
    catalog,    \* names of the views committed in the database
    result,     \* rows of the last statement evaluated (a sequence)
    lastQuery,  \* which statement produced `result`
    process,    \* "fresh", "script" (run as __main__) or "importer"
    entry,      \* what was entered from outside: "__main__" or a function
    fn,         \* the function that calls connect and executes statements
    prevFn,     \* `fn` of the invocation before this one
    pc,         \* position in the running function
    conns,      \* connections psycopg2.connect opened that nothing closed
    held,       \* those of them opened by connect() for importing code
    conn,       \* local `conn` of the running function (0: unbound)
    cursor,     \* local `cursor` of the running function
    sent,       \* statements the database received in this invocation
    exc,        \* exception raised in this invocation ("none" if none)
    out,        \* lines the process printed to standard output
    outAtCall,  \* `out` when this invocation started
    exitCode,   \* exit status of the script (-1 while it runs)
    attempts,   \* calls of psycopg2.connect in this invocation
    run,        \* invocations started so far (script runs and calls)
    catalogAtStart  \* `catalog` when this invocation started

tables == <<log, articles, authors>>
prog == <<process, entry, fn, prevFn, pc, conns, held, conn, cursor, sent, exc, out,
          outAtCall, exitCode, attempts, run, catalogAtStart>>
vars == <<log, articles, authors, catalog, result, lastQuery, process, entry,
          fn, prevFn, pc, conns, held, conn, cursor, sent, exc, out, outAtCall,
          exitCode, attempts, run, catalogAtStart>>

---------------------------------------------------------------------------
(* Bounds and domains of the table contents.                               *)

MaxLog == 4          \* rows of an enumerated log table (article hits)
MaxErrLog == 3       \* rows of an enumerated log table (statuses and times)
MaxDay == 2          \* calendar days 0..MaxDay
MaxRuns == 2         \* invocations: runs of the script and calls

Slugs == {"a", "b", "c", "d"}
Hours == {0, 12}     \* times of day that occur in a timestamp
Statuses == {"200 OK", "404 NOT FOUND", "500 INTERNAL SERVER ERROR"}

Times == [day : 0..MaxDay, hour : Hours]
Midnight(d) == [day |-> d, hour |-> 0]

\* Generic helpers -----------------------------------------------------------

\* sum of f[x] over x in S
RECURSIVE SumFn(_, _)
SumFn(f, S) ==
    IF S = {} THEN 0
    ELSE LET x == CHOOSE y \in S : TRUE
         IN  f[x] + SumFn(f, S \ {x})

RECURSIVE BagsOfSize(_, _)
BagsOfSize(K, n) ==
    IF n = 0 THEN {EmptyBag}
    ELSE {b (+) SetToBag({e}) : b \in BagsOfSize(K, n - 1), e \in K}

BagsUpTo(K, n) == UNION {BagsOfSize(K, m) : m \in 0..n}

\* n copies of row e
Copies(e, n) == IF n = 0 THEN EmptyBag ELSE [x \in {e} |-> n]

\* count(*) over the rows of bag b that are in the set R
CountRows(b, R) == SumFn([e \in R |-> CopiesIn(e, b)], R)

\* ORDER BY key DESC: the next row is any row with the greatest key, so rows
\* with equal keys come in any order
RECURSIVE OrderByDesc(_, _)
OrderByDesc(S, key) ==
    IF S = {} THEN {<<>>}
    ELSE UNION {{<<x>> \o s : s \in OrderByDesc(S \ {x}, key)} :
                x \in {y \in S : \A z \in S : key[y] >= key[z]}}

\* ORDER BY key (ascending)
RECURSIVE OrderByAsc(_, _)
OrderByAsc(S, key) ==
    IF S = {} THEN {<<>>}
    ELSE UNION {{<<x>> \o s : s \in OrderByAsc(S \ {x}, key)} :
                x \in {y \in S : \A z \in S : key[y] <= key[z]}}

\* LIMIT n
Limit(s, n) == SubSeq(s, 1, IF Len(s) < n THEN Len(s) ELSE n)

---------------------------------------------------------------------------
(* The SQL statements.                                                     *)

\* concat('/article/', articles.slug)
concat(x, y) == x \o y

\* date_trunc('day', time)
date_trunc_day(t) == [day |-> t.day, hour |-> 0]

\* position of a timestamp on the time line (hours since day 0, 00:00)
Instant(t) == 24 * t.day + t.hour

\* a numeric quotient n / d, kept exact
Quotient(n, d) == [num |-> n, den |-> d]

\* q > k for a quotient with positive denominator
QuotientGreater(q, k) == q.num > k * q.den

\* the rows of log with a given path / of a given day
RowsWithPath(lg, p) == {e \in BagToSet(lg) : e.path = p}
RowsOfDate(lg, d) == {e \in BagToSet(lg) : date_trunc_day(e.time) = d}

\* select path, count(*) as pv from log group by path: one row per path
PathCounts(lg) ==
    {[path |-> p, pv |-> CountRows(lg, RowsWithPath(lg, p))] :
        p \in {e.path : e \in BagToSet(lg)}}

\* select path, count(*) as pv from log group by path order by pv desc
\* (every output order the view can yield)
query_initialize_view_most_viewed_paths(lg) ==
    LET rows == PathCounts(lg)
    IN  OrderByDesc(rows, [r \in rows |-> r.pv])

\* from articles, most_viewed_paths where concat('/article/', slug) = path
\* (the pairs are the same whichever order the view yields its rows in)
ArticlePathJoin(ar, lg) ==
    LET v == CHOOSE w \in query_initialize_view_most_viewed_paths(lg) : TRUE
    IN  {j \in ar \X {v[i] : i \in DOMAIN v} :
            concat("/article/", j[1].slug) = j[2].path}

\* select title, author as author_id, pv   (of a joined pair)
ArticleViewRow(j) ==
    [title |-> j[1].title, author_id |-> j[1].author, pv |-> j[2].pv]

\* select title, author as author_id, pv ... order by pv desc
\* (every output order the view can yield)
query_initialize_view_most_viewed_articles(ar, lg) ==
    LET joined == ArticlePathJoin(ar, lg)
    IN  {[i \in DOMAIN f |-> ArticleViewRow(f[i])] :
            f \in OrderByDesc(joined, [j \in joined |-> j[2].pv])}

\* select title, pv from most_viewed_articles limit 3
query_select_three_most_viewed_articles(ar, lg) ==
    {Limit([i \in DOMAIN v |-> [title |-> v[i].title, pv |-> v[i].pv]], 3) :
        v \in query_initialize_view_most_viewed_articles(ar, lg)}

\* select name, sum(pv) as authors_total_pv from authors, most_viewed_articles
\*   where authors.id = most_viewed_articles.author_id
\*   group by name order by authors_total_pv desc
query_select_most_viewed_authors(au, ar, lg) ==
    LET v == CHOOSE w \in query_initialize_view_most_viewed_articles(ar, lg) : TRUE
        joined == {j \in au \X DOMAIN v : j[1].id = v[j[2]].author_id}
        group(n) == {j \in joined : j[1].name = n}
        rows == {[name |-> n,
                  authors_total_pv |-> SumFn([j \in group(n) |-> v[j[2]].pv], group(n))] :
                 n \in {j[1].name : j \in joined}}
    IN  OrderByDesc(rows, [r \in rows |-> r.authors_total_pv])

\* the same view counting every status other than '200 OK' as an error
daily_error_rates_counting_non_ok(lg) ==
    LET rows == {[date |-> d,
                  error_rate |->
                      Quotient(100 * CountRows(lg, {e \in RowsOfDate(lg, d) :
                                                       e.status # "200 OK"}),
                               CountRows(lg, RowsOfDate(lg, d)))] :
                 d \in {date_trunc_day(e.time) : e \in BagToSet(lg)}}
    IN  OrderByAsc(rows, [r \in rows |-> Instant(r.date)])

\* select date_trunc('day', time) as date,
\*        100.0 * count(case when status = '404 NOT FOUND' then 1 end) / count(*)
\*            as error_rate
\*   from log group by date order by date
query_initialize_view_daily_error_rates(lg) ==
    LET rows == {[date |-> d,
                  error_rate |->
                      Quotient(100 * CountRows(lg, {e \in RowsOfDate(lg, d) :
                                                       e.status = "404 NOT FOUND"}),
                               CountRows(lg, RowsOfDate(lg, d)))] :
                 d \in {date_trunc_day(e.time) : e \in BagToSet(lg)}}
    IN  OrderByAsc(rows, [r \in rows |-> Instant(r.date)])

\* select * from daily_error_rates where error_rate > 1.0 order by date
query_select_daily_error_rate_more_than_one_percent(lg) ==
    UNION {LET kept == {v[i] : i \in {k \in DOMAIN v :
                                         QuotientGreater(v[k].error_rate, 1)}}
           IN  OrderByAsc(kept, [r \in kept |-> Instant(r.date)]) :
           v \in query_initialize_view_daily_error_rates(lg)}

---------------------------------------------------------------------------
(* The functions and the script: lines 78-156.                             *)

AllViews == {"most_viewed_paths", "most_viewed_articles", "daily_error_rates"}

\* most_viewed_articles is defined over most_viewed_paths
ValidCatalogs ==
    {c \in SUBSET AllViews :
        "most_viewed_articles" \in c => "most_viewed_paths" \in c}

\* the attributes a Python value of each kind has
Attributes(kind) ==
    CASE kind = "connection" -> {"cursor", "commit", "close"}
      [] kind = "cursor" -> {"execute", "fetchall"}
      [] kind = "builtin_function_or_method" -> {"__call__", "__self__", "__name__"}
      [] OTHER -> {}

Unbound == [kind |-> "unbound", self |-> 0]

\* line 81: cursor = conn.cursor  -- the bound method itself, not its result
ConnCursor(c) == [kind |-> "builtin_function_or_method", self |-> c]

SelectFunctions ==
    {"select_three_most_viewed_articles",
     "select_most_viewed_authors",
     "select_daily_error_rate_more_than_one_percent"}

PrintFunctions ==
    {"print_three_most_viewed_articles",
     "print_most_viewed_authors",
     "print_daily_error_rate_more_than_one_percent"}

\* lines 124, 133, 142
ReportHeaders ==
    << "1. The most popular three articles of all time:",
       "2. The most popular article authors of all time:",
       "3. The dates when more than 1% of requests lead to errors:" >>

\* the first line a print function prints
HeaderOf(p) ==
    CASE p = "print_three_most_viewed_articles" -> ReportHeaders[1]
      [] p = "print_most_viewed_authors" -> ReportHeaders[2]
      [] p = "print_daily_error_rate_more_than_one_percent" -> ReportHeaders[3]

\* lines 125, 134, 143: the select function a print function calls
SelectOf(p) ==
    CASE p = "print_three_most_viewed_articles" ->
             "select_three_most_viewed_articles"
      [] p = "print_most_viewed_authors" ->
             "select_most_viewed_authors"
      [] p = "print_daily_error_rate_more_than_one_percent" ->
             "select_daily_error_rate_more_than_one_percent"

\* lines 91-93: the statements initialize_views executes, in order
ViewStatements ==
    << "query_initialize_view_most_viewed_paths",
       "query_initialize_view_most_viewed_articles",
       "query_initialize_view_daily_error_rates" >>

\* lines 100, 108, 116: the statement a select function executes
StatementOf(f) ==
    CASE f = "select_three_most_viewed_articles" ->
             "query_select_three_most_viewed_articles"
      [] f = "select_most_viewed_authors" ->
             "query_select_most_viewed_authors"
      [] f = "select_daily_error_rate_more_than_one_percent" ->
             "query_select_daily_error_rate_more_than_one_percent"

\* lines 57, 63, 70: the view that statement reads
ViewReadBy(f) ==
    CASE f = "select_three_most_viewed_articles" -> "most_viewed_articles"
      [] f = "select_most_viewed_authors" -> "most_viewed_articles"
      [] f = "select_daily_error_rate_more_than_one_percent" -> "daily_error_rates"

\* lines 101, 109, 117: the row lists fetchall can return for it
RowsOf(f) ==
    CASE f = "select_three_most_viewed_articles" ->
             query_select_three_most_viewed_articles(articles, log)
      [] f = "select_most_viewed_authors" ->
             query_select_most_viewed_authors(authors, articles, log)
      [] f = "select_daily_error_rate_more_than_one_percent" ->
             query_select_daily_error_rate_more_than_one_percent(log)

\* the state of a process in which no function of the module has been
\* called yet
NotStarted ==
    /\ pc = "idle"
    /\ process = "fresh"
    /\ entry = "none"
    /\ fn = "none"
    /\ prevFn = "none"
    /\ conns = {}
    /\ held = {}
    /\ conn = 0
    /\ cursor = Unbound
    /\ sent = <<>>
    /\ exc = "none"
    /\ out = <<>>
    /\ outAtCall = <<>>
    /\ exitCode = -1
    /\ attempts = 0
    /\ run = 0
    /\ catalogAtStart = catalog

\* lines 152-153 and 90: the file is run as a script; __main__ calls
\* initialize_views, which calls connect("news")
main ==
    /\ pc = "idle"
    /\ process = "fresh"
    /\ run < MaxRuns
    /\ run' = run + 1
    /\ process' = "script"
    /\ entry' = "__main__"
    /\ fn' = "initialize_views"
    /\ prevFn' = fn
    /\ outAtCall' = out
    /\ catalogAtStart' = catalog
    /\ pc' = "connect"
    /\ UNCHANGED <<held, tables, catalog, result, lastQuery, conns, conn, cursor, sent,
                   exc, out, exitCode, attempts>>

\* Code that imported the module calls its function e, which runs the
\* function f as far as its call of connect("news"), after printing the
\* lines hdr: a fresh frame, a fresh exception state.
Call(e, f, hdr) ==
    /\ pc = "idle"
    /\ process \in {"fresh", "importer"}
    /\ run < MaxRuns
    /\ run' = run + 1
    /\ process' = "importer"
    /\ entry' = e
    /\ fn' = f
    /\ prevFn' = fn
    /\ outAtCall' = out
    /\ out' = out \o hdr
    /\ catalogAtStart' = catalog
    /\ conn' = 0
    /\ cursor' = Unbound
    /\ sent' = <<>>
    /\ exc' = "none"
    /\ attempts' = 0
    /\ pc' = "connect"
    /\ UNCHANGED <<held, tables, catalog, result, lastQuery, conns, exitCode>>

\* lines 89-90: initialize_views() called by importing code
initialize_views == Call("initialize_views", "initialize_views", <<>>)

\* lines 98-99, 106-107, 114-115: a select function called by importing code
select_three_most_viewed_articles ==
    Call("select_three_most_viewed_articles",
         "select_three_most_viewed_articles", <<>>)

select_most_viewed_authors ==
    Call("select_most_viewed_authors", "select_most_viewed_authors", <<>>)

select_daily_error_rate_more_than_one_percent ==
    Call("select_daily_error_rate_more_than_one_percent",
         "select_daily_error_rate_more_than_one_percent", <<>>)

\* lines 123-125, 132-134, 141-143: a print function called by importing
\* code prints its header, then calls its select function
print_three_most_viewed_articles ==
    Call("print_three_most_viewed_articles",
         SelectOf("print_three_most_viewed_articles"),
         <<HeaderOf("print_three_most_viewed_articles")>>)

print_most_viewed_authors ==
    Call("print_most_viewed_authors",
         SelectOf("print_most_viewed_authors"),
         <<HeaderOf("print_most_viewed_authors")>>)

print_daily_error_rate_more_than_one_percent ==
    Call("print_daily_error_rate_more_than_one_percent",
         SelectOf("print_daily_error_rate_more_than_one_percent"),
         <<HeaderOf("print_daily_error_rate_more_than_one_percent")>>)

\* lines 78-79: connect("news") called by importing code
call_connect == Call("connect", "connect", <<>>)

\* lines 79-82: psycopg2.connect succeeds; connect returns (conn, conn.cursor)
\* to the function that called it, or to the importing code
connect ==
    /\ pc = "connect"
    /\ attempts' = attempts + 1
    /\ LET c == run
       IN  /\ conns' = conns \cup {c}
           /\ conn' = c
           /\ cursor' = ConnCursor(c)
    /\ held' = IF fn = "connect" THEN held \cup {run} ELSE held
    /\ pc' = IF fn = "connect" THEN "returned" ELSE "execute"
    /\ UNCHANGED <<tables, catalog, result, lastQuery, sent, exc, out, exitCode,
                   run, catalogAtStart, process, entry, fn, prevFn, outAtCall>>

\* lines 80, 83-84 with the error swallowed and the connection tried again
connect_raises_and_retries ==
    /\ pc = "connect"
    /\ attempts < 3
    /\ attempts' = attempts + 1
    /\ exc' = "psycopg2.Error"
    /\ pc' = "connect"
    /\ UNCHANGED <<held, tables, catalog, result, lastQuery, conns, conn, cursor, sent,
                   out, exitCode, run, catalogAtStart, process, entry, fn,
                   prevFn, outAtCall>>

\* lines 80, 83-84: psycopg2.connect raises psycopg2.Error, which connect
\* raises again; no function of the module handles it
connect_raises ==
    /\ pc = "connect"
    /\ attempts' = attempts + 1
    /\ exc' = "psycopg2.Error"
    /\ pc' = "raised"
    /\ UNCHANGED <<held, tables, catalog, result, lastQuery, conns, conn, cursor, sent,
                   out, exitCode, run, catalogAtStart, process, entry, fn,
                   prevFn, outAtCall>>

\* lines 91-92 with autocommit on and a cursor: the first statement takes
\* effect in the catalog at once, the second one fails
initialize_views_body_autocommit ==
    /\ pc = "execute"
    /\ fn = "initialize_views"
    /\ sent' = SubSeq(ViewStatements, 1, 2)
    /\ catalog' = catalog \cup {"most_viewed_paths"}
    /\ exc' = "psycopg2.Error"
    /\ pc' = "raised"
    /\ UNCHANGED <<held, tables, result, lastQuery, conns, conn, cursor, out,
                   exitCode, attempts, run, catalogAtStart, process, entry, fn,
                   prevFn, outAtCall>>

\* lines 91-95: the body of initialize_views after connect.
\* The attribute `execute` is looked up on the value of `cursor`; a value
\* without it raises AttributeError at line 91, which nothing handles, and
\* the connection stays open.  With it, the three statements go to the
\* database inside the connection's transaction, line 94 commits them
\* together and line 95 closes the connection.
initialize_views_body ==
    /\ pc = "execute"
    /\ fn = "initialize_views"
    /\ IF "execute" \in Attributes(cursor.kind)
          THEN /\ sent' = sent \o ViewStatements
               /\ catalog' = AllViews
               /\ conns' = conns \ {conn}
               /\ pc' = "returned"
               /\ exc' = exc
          ELSE /\ exc' = "AttributeError"
               /\ pc' = "raised"
               /\ UNCHANGED <<sent, catalog, conns>>
    /\ UNCHANGED <<held, tables, result, lastQuery, conn, cursor, out, exitCode,
                   attempts, run, catalogAtStart, process, entry, fn, prevFn,
                   outAtCall>>

\* lines 100-103, 108-111, 116-119: the body of a select function after
\* connect.  Without an attribute `execute` on the value of `cursor`, line
\* 100 (108, 116) raises AttributeError and the connection stays open.
\* With it, the statement goes to the database, which raises an error when
\* the view it reads does not exist; otherwise fetchall returns the rows,
\* the connection is closed and the rows are returned.
select_body ==
    /\ pc = "execute"
    /\ fn \in SelectFunctions
    /\ IF "execute" \in Attributes(cursor.kind)
          THEN /\ sent' = Append(sent, StatementOf(fn))
               /\ IF ViewReadBy(fn) \in catalog
                     THEN /\ result' \in RowsOf(fn)
                          /\ lastQuery' = fn
                          /\ conns' = conns \ {conn}
                          /\ pc' = "returned"
                          /\ exc' = exc
                     ELSE /\ exc' = "psycopg2.Error"
                          /\ pc' = "raised"
                          /\ UNCHANGED <<result, lastQuery, conns>>
          ELSE /\ exc' = "AttributeError"
               /\ pc' = "raised"
               /\ UNCHANGED <<sent, result, lastQuery, conns>>
    /\ UNCHANGED <<held, tables, catalog, conn, cursor, out, exitCode, attempts, run,
                   catalogAtStart, process, entry, fn, prevFn, outAtCall>>

\* lines 82, 95, 103, 111, 119: connect, initialize_views or a select
\* function returns to the importing code that called it; what connect
\* returns is an open connection, which that code now holds
return_to_caller ==
    /\ pc = "returned"
    /\ process = "importer"
    /\ entry \notin PrintFunctions
    /\ pc' = "idle"
    /\ UNCHANGED <<held, tables, catalog, result, lastQuery, conns, conn, cursor, sent,
                   exc, out, exitCode, attempts, run, catalogAtStart, process,
                   entry, fn, prevFn, outAtCall>>

\* an exception leaves the function that importing code called: control is
\* back in that code, with the exception.  No line of the function has
\* closed the connection; it is referenced by the locals of the frame that
\* raised only, so it stays open while the caller keeps the exception, and
\* the runtime finalises (and so closes) it when the caller drops it
exception_to_caller ==
    /\ pc = "raised"
    /\ process = "importer"
    /\ pc' = "idle"
    /\ conns' \in {conns, conns \ {conn}}
    /\ UNCHANGED <<held, tables, catalog, result, lastQuery, conn, cursor, sent,
                   exc, out, exitCode, attempts, run, catalogAtStart, process,
                   entry, fn, prevFn, outAtCall>>

\* the importing code drops its last reference to a connection (an
\* exception it kept, or what connect returned), at once or at a later
\* garbage collection: the runtime finalises the connection, which closes it
connection_finalised ==
    /\ pc = "idle"
    /\ process = "importer"
    /\ \E c \in conns :
           /\ conns' = conns \ {c}
           /\ held' = held \ {c}
    /\ UNCHANGED <<tables, catalog, result, lastQuery, pc, conn, cursor, sent,
                   exc, out, exitCode, attempts, run, catalogAtStart, process,
                   entry, fn, prevFn, outAtCall>>

\* an exception reaches the top level of the script: the interpreter prints
\* the traceback to standard error and exits with status 1; the process's
\* connections go with it, and the server rolls back what they had not
\* committed
uncaught_exception ==
    /\ pc = "raised"
    /\ process = "script"
    /\ pc' = "exited"
    /\ exitCode' = 1
    /\ conns' = {}
    /\ UNCHANGED <<held, tables, catalog, result, lastQuery, conn, cursor, sent, exc,
                   out, attempts, run, catalogAtStart, process, entry, fn,
                   prevFn, outAtCall>>

\* a new process starts on the same database
run_again ==
    /\ pc = "exited"
    /\ run < MaxRuns
    /\ pc' = "idle"
    /\ process' = "fresh"
    /\ entry' = "none"
    /\ conn' = 0
    /\ cursor' = Unbound
    /\ sent' = <<>>
    /\ exc' = "none"
    /\ out' = <<>>
    /\ outAtCall' = <<>>
    /\ exitCode' = -1
    /\ attempts' = 0
    /\ catalogAtStart' = catalog
    /\ held' = {}
    /\ UNCHANGED <<tables, catalog, result, lastQuery, conns, run, fn, prevFn>>

---------------------------------------------------------------------------
(* Table contents the checks range over.                                   *)

ArticlePaths == {concat("/article/", s) : s \in Slugs}

\* two articles share a title
SampleTitle == [a |-> "Foo", b |-> "Bar", c |-> "Baz", d |-> "Baz"]
SampleAuthor == [a |-> 1, b |-> 1, c |-> 2, d |-> 3]

ArticleRow(s) == [slug |-> s, title |-> SampleTitle[s], author |-> SampleAuthor[s]]
SampleAuthors == {[id |-> 1, name |-> "Ann"], [id |-> 2, name |-> "Bob"],
                  [id |-> 3, name |-> "Ann"]}

Hit(p, st) == [path |-> p, status |-> st, time |-> Midnight(0)]

\* the log rows SpecArticles enumerates: any path, two statuses, one time
ArticleHits == {Hit(p, st) : p \in ArticlePaths \cup {"/"},
                             st \in {"200 OK", "404 NOT FOUND"}}

ArticleHit(slug, st) == Hit(concat("/article/", slug), st)

\* Article(slug="a", title="Foo") with 5 matching hits;
\* the same with a 404 among them and a hit on no article; every article
\* hit 5 times; and articles hit 5, 3, 3 and 1 times
ExampleArticleLogs ==
    { Copies(ArticleHit("a", "200 OK"), 5),
      Copies(ArticleHit("a", "200 OK"), 4) (+) Copies(ArticleHit("a", "404 NOT FOUND"), 1)
          (+) Copies(Hit("/", "200 OK"), 1),
      Copies(ArticleHit("a", "200 OK"), 5) (+) Copies(ArticleHit("b", "200 OK"), 5)
          (+) Copies(ArticleHit("c", "200 OK"), 5) (+) Copies(ArticleHit("d", "200 OK"), 5),
      Copies(ArticleHit("a", "200 OK"), 5) (+) Copies(ArticleHit("b", "200 OK"), 3)
          (+) Copies(ArticleHit("c", "200 OK"), 3) (+) Copies(ArticleHit("d", "200 OK"), 1) }

---------------------------------------------------------------------------
(* The database executes the statements about articles.                    *)

\* a read of the view most_viewed_paths (lines 9-15)
read_most_viewed_paths ==
    /\ \E v \in query_initialize_view_most_viewed_paths(log) :
           result' = v
    /\ lastQuery' = "most_viewed_paths"
    /\ UNCHANGED <<tables, catalog, prog>>

\* a read of the view most_viewed_articles (lines 24-30)

read_most_viewed_articles ==
    /\ \E v \in query_initialize_view_most_viewed_articles(articles, log) :
           result' = v
    /\ lastQuery' = "most_viewed_articles"
    /\ UNCHANGED <<tables, catalog, prog>>

execute_select_three_most_viewed_articles ==
    /\ \E r \in query_select_three_most_viewed_articles(articles, log) :
           result' = r
    /\ lastQuery' = "select_three_most_viewed_articles"
    /\ UNCHANGED <<tables, catalog, prog>>

InitArticles ==
    /\ log \in BagsUpTo(ArticleHits, MaxLog) \cup ExampleArticleLogs
    /\ articles \in {{ArticleRow(s) : s \in S} : S \in SUBSET Slugs}
    /\ authors = SampleAuthors
    /\ catalog = AllViews
    /\ result = <<>>
    /\ lastQuery = "none"
    /\ NotStarted

NextArticles ==
    \/ read_most_viewed_paths
    \/ read_most_viewed_articles
    \/ execute_select_three_most_viewed_articles

SpecArticles == InitArticles /\ [][NextArticles]_vars

---------------------------------------------------------------------------
(* Evaluation of the statement about authors.                              *)

AuthorIds == {1, 2, 3}
AuthorNames == {"Ann", "Bob"}
AuthorSlugs == {"a", "b", "c"}

execute_select_most_viewed_authors ==
    /\ \E r \in query_select_most_viewed_authors(authors, articles, log) :
           result' = r
    /\ lastQuery' = "select_most_viewed_authors"
    /\ UNCHANGED <<tables, catalog, prog>>

InitAuthors ==
    /\ log \in BagsUpTo({ArticleHit(s, "200 OK") : s \in AuthorSlugs} \cup {Hit("/", "200 OK")},
                         MaxLog)
    /\ authors \in {{[id |-> i, name |-> nm[i]] : i \in AuthorIds} :
                        nm \in [AuthorIds -> AuthorNames]}
    /\ articles \in {{[slug |-> sl, title |-> SampleTitle[sl], author |-> by[sl]] :
                            sl \in AuthorSlugs} : by \in [AuthorSlugs -> AuthorIds]}
    /\ catalog = AllViews
    /\ result = <<>>
    /\ lastQuery = "none"
    /\ NotStarted

NextAuthors == execute_select_most_viewed_authors

SpecAuthors == InitAuthors /\ [][NextAuthors]_vars

---------------------------------------------------------------------------
(* Evaluation of the statements about error rates.                         *)

Request(st, t) == [path |-> "/", status |-> st, time |-> t]

\* a day-0 log of n requests of which exactly one is a 404
OneErrorIn(n) ==
    Copies(Request("200 OK", Midnight(0)), n - 1)
        (+) Copies(Request("404 NOT FOUND", Midnight(0)), 1)

\* 5 x '200 OK' + 1 x '404 NOT FOUND' on one date, and
\* days around the 1% threshold
ExampleErrorLogs == {EmptyBag, OneErrorIn(6), OneErrorIn(99), OneErrorIn(100), OneErrorIn(101)}

read_daily_error_rates ==
    /\ \E v \in query_initialize_view_daily_error_rates(log) : result' = v
    /\ lastQuery' = "daily_error_rates"
    /\ UNCHANGED <<tables, catalog, prog>>

execute_select_daily_error_rate_more_than_one_percent ==
    /\ \E r \in query_select_daily_error_rate_more_than_one_percent(log) :
           result' = r
    /\ lastQuery' = "select_daily_error_rate_more_than_one_percent"
    /\ UNCHANGED <<tables, catalog, prog>>

InitErrors ==
    /\ log \in {b (+) x : b \in BagsUpTo({Request(st, t) : st \in Statuses, t \in Times},
                                           MaxErrLog),
                            x \in ExampleErrorLogs}
    /\ articles = {ArticleRow(s) : s \in Slugs}
    /\ authors = SampleAuthors
    /\ catalog = AllViews
    /\ result = <<>>
    /\ lastQuery = "none"
    /\ NotStarted

NextErrors == read_daily_error_rates \/ execute_select_daily_error_rate_more_than_one_percent

SpecErrors == InitErrors /\ [][NextErrors]_vars

---------------------------------------------------------------------------
(* Runs of the script and calls of the module's functions.                 *)

Init ==
    /\ log \in ExampleArticleLogs
    /\ articles \in {{ArticleRow(s) : s \in S} : S \in SUBSET Slugs}
    /\ authors = SampleAuthors
    /\ catalog \in ValidCatalogs
    /\ result = <<>>
    /\ lastQuery = "none"
    /\ NotStarted

Next ==
    \/ main
    \/ call_connect
    \/ initialize_views
    \/ select_three_most_viewed_articles
    \/ select_most_viewed_authors
    \/ select_daily_error_rate_more_than_one_percent
    \/ print_three_most_viewed_articles
    \/ print_most_viewed_authors
    \/ print_daily_error_rate_more_than_one_percent
    \/ connect
    \/ connect_raises
    \/ initialize_views_body
    \/ select_body
    \/ return_to_caller
    \/ exception_to_caller
    \/ connection_finalised
    \/ uncaught_exception
    \/ run_again

Spec == Init /\ [][Next]_vars

---------------------------------------------------------------------------
(* Claims about runs of the script and calls of the functions.             *)

\* lines 91-93, 100, 108, 116
StatementsOfARun ==
    ViewStatements \o
    << "query_select_three_most_viewed_articles",
       "query_select_most_viewed_authors",
       "query_select_daily_error_rate_more_than_one_percent" >>

\* the invocation has ended, or is about to end, with an exception
Ended == pc \in {"raised", "exited", "idle"}

Aborted == Ended /\ fn = "initialize_views" /\ exc # "none"

\* what a call of `entry` has printed when its query is tried
HeaderPrinted ==
    IF entry \in PrintFunctions THEN <<HeaderOf(entry)>> ELSE <<>>

\* C1: a run of the script in which the database raises no error executes
\* its statements on a cursor of the connection the step opened, creates
\* the views, runs the three reports in order, prints them and exits with
\* status 0.
C1_RunCompletes ==
    /\ pc = "execute" =>
          cursor.kind = "cursor" /\ cursor.self = conn /\ conn \in conns
    /\ process = "script" /\ exc # "psycopg2.Error" /\ pc \in {"raised", "exited"} =>
          /\ pc = "exited"
          /\ exitCode = 0
          /\ sent = StatementsOfARun
          /\ catalog = AllViews
          /\ \E i, j, k \in DOMAIN out :
                /\ i < j /\ j < k
                /\ out[i] = ReportHeaders[1]
                /\ out[j] = ReportHeaders[2]
                /\ out[k] = ReportHeaders[3]

\* C5: initialize_views run a second time, right after a first, raises no
\* error and leaves exactly the three views defined.
C5_SecondRunSucceeds ==
    /\ prevFn = "initialize_views"
    /\ fn = "initialize_views"
    /\ pc \in {"raised", "returned", "exited"}
    /\ exc # "psycopg2.Error"
    => /\ exc = "none"
       /\ catalog = AllViews

\* C6: when initialize_views fails it ends with the committed views exactly
\* as they were when it started; the committed views change only at the
\* commit of line 94, where all three become visible together.
C6_AllOrNothing ==
    /\ [](Aborted => catalog = catalogAtStart)
    /\ [][catalog' # catalog =>
             /\ pc = "execute"
             /\ fn = "initialize_views"
             /\ pc' = "returned"
             /\ catalog' = AllViews]_vars

\* the first view statement of initialize_views failed on a database that
\* lacked a view
C6_Witness ==
    /\ pc = "raised"
    /\ fn = "initialize_views"
    /\ exc = "AttributeError"
    /\ attempts = 1
    /\ catalogAtStart # AllViews
    /\ catalog = catalogAtStart

\* C7: every operation closes the connection it opened before it ends: of
\* the connections opened by initialize_views and the select functions at
\* most one is open, and none between operations or once the run has ended.
C7_ConnectionsClosed ==
    /\ Cardinality(conns \ held) <= 1
    /\ pc \in {"idle", "raised", "returned", "exited"} => conns \ held = {}

\* C8: a database error ends the operation at that step with the error: the
\* step is not tried again, no statement or query follows, no rows are
\* returned, a script run exits with a failure status, and standard output
\* is what it was before the operation plus the header of the report whose
\* query failed.
C8_ErrorAborts ==
    exc = "psycopg2.Error" =>
        /\ Ended
        /\ attempts = 1
        /\ sent = <<>>
        /\ result = <<>>
        /\ out = outAtCall \o HeaderPrinted
        /\ pc = "exited" => exitCode = 1

\* the first report was printed as far as its header, and psycopg2.connect
\* raised in the second: both headers are on standard output
C8_Witness ==
    /\ exc = "psycopg2.Error"
    /\ entry = "print_most_viewed_authors"
    /\ pc = "idle"
    /\ outAtCall = <<ReportHeaders[1]>>
    /\ out = <<ReportHeaders[1], ReportHeaders[2]>>

---------------------------------------------------------------------------
(* Claims about the article statements.                                    *)

\* number of log rows whose path is '/article/' followed by the slug of x,
\* counted on the table itself
ViewsOf(x) ==
    CountRows(log, {e \in BagToSet(log) : e.path = concat("/article/", x.slug)})

Viewed == {x \in articles : ViewsOf(x) >= 1}

Min(m, n) == IF m < n THEN m ELSE n

\* r lists min(3, |Viewed|) distinct viewed articles as (title, view_count),
\* and no viewed article left out has more views than one listed
IsTopOfViewed(r) ==
    /\ Len(r) = Min(3, Cardinality(Viewed))
    /\ \E f \in [1..Len(r) -> Viewed] :
          /\ \A i, j \in 1..Len(r) : i # j => f[i] # f[j]
          /\ \A i \in 1..Len(r) :
                r[i] = [title |-> f[i].title, pv |-> ViewsOf(f[i])]
          /\ \A x \in Viewed \ {f[i] : i \in 1..Len(r)} :
                \A i \in 1..Len(r) : ViewsOf(x) <= r[i].pv

\* a call of the select function f has ended on a database that holds the
\* three views and raised no error
CallEnded(f) ==
    /\ fn = f
    /\ pc \in {"raised", "returned", "idle", "exited"}
    /\ catalog = AllViews
    /\ exc # "psycopg2.Error"

\* C2: select_three_most_viewed_articles returns at most 3 rows, strictly
\* descending by view count, that are the top of MostViewedArticles.
C2_TopThreeReturned ==
    CallEnded("select_three_most_viewed_articles") =>
        /\ exc = "none"
        /\ lastQuery = "select_three_most_viewed_articles"
        /\ Len(result) <= 3
        /\ \A i \in 1..(Len(result) - 1) : result[i].pv > result[i + 1].pv
        /\ IsTopOfViewed(result)

\* The statement of lines 55-59 where the database evaluates it: at most 3
\* rows, view counts descending with equal counts following each other,
\* the top of MostViewedArticles.
StatementTopThreeSorted ==
    lastQuery = "select_three_most_viewed_articles" =>
        /\ Len(result) <= 3
        /\ \A i \in 1..(Len(result) - 1) : result[i].pv >= result[i + 1].pv
        /\ IsTopOfViewed(result)

\* the statement returned three rows, two of them with equal counts, and
\* left a fourth viewed article out
StatementTopThreeTied ==
    /\ lastQuery = "select_three_most_viewed_articles"
    /\ Len(result) = 3
    /\ Cardinality(Viewed) = 4
    /\ result[1].pv > result[2].pv
    /\ result[2].pv = result[3].pv
    /\ \E x \in Viewed : ViewsOf(x) < result[3].pv

\* the rows the view must hold, from the tables directly
ExpectedArticleRow(x) == [title |-> x.title, author_id |-> x.author, pv |-> ViewsOf(x)]

\* v holds exactly one row per viewed article (as a bag of rows)
HoldsViewedArticles(v) ==
    \A t \in {v[i] : i \in DOMAIN v} \cup {ExpectedArticleRow(x) : x \in Viewed} :
        Cardinality({i \in DOMAIN v : v[i] = t})
            = Cardinality({x \in Viewed : ExpectedArticleRow(x) = t})

\* C10: most_viewed_articles has a row per article with matching log rows,
\* view_count counting rows of every status; hence a call of
\* select_three_most_viewed_articles returns (title, views) of a viewed
\* article whenever fewer than 3 other articles have more views.
C10_ViewedArticleReturned ==
    /\ lastQuery = "most_viewed_articles" => HoldsViewedArticles(result)
    /\ CallEnded("select_three_most_viewed_articles") =>
          \A x \in Viewed :
              Cardinality({y \in articles \ {x} : ViewsOf(y) > ViewsOf(x)}) < 3
                  => /\ exc = "none"
                     /\ \E i \in DOMAIN result :
                            result[i] = [title |-> x.title, pv |-> ViewsOf(x)]

\* The view of lines 24-30 and the statement of lines 55-59 where the
\* database evaluates them: the view has a row per viewed article, and the
\* statement returns a viewed article whenever fewer than 3 other articles
\* have at least as many views.
StatementViewRowsAndInclusion ==
    /\ lastQuery = "most_viewed_articles" => HoldsViewedArticles(result)
    /\ lastQuery = "select_three_most_viewed_articles" =>
          \A x \in Viewed :
              Cardinality({y \in articles \ {x} : ViewsOf(y) >= ViewsOf(x)}) < 3
                  => \E i \in DOMAIN result :
                         result[i] = [title |-> x.title, pv |-> ViewsOf(x)]

\* the same with "more views": four articles viewed equally often refute it
StatementInclusionUnlessThreeHaveMore ==
    lastQuery = "select_three_most_viewed_articles" =>
        \A x \in Viewed :
            Cardinality({y \in articles \ {x} : ViewsOf(y) > ViewsOf(x)}) < 3
                => \E i \in DOMAIN result :
                       result[i] = [title |-> x.title, pv |-> ViewsOf(x)]

---------------------------------------------------------------------------
(* Claims about the author statement.                                      *)

\* views of the articles written by author row a, from the tables directly
ArticlesBy(a) == {x \in Viewed : x.author = a.id}
TotalViewsOf(a) == SumFn([x \in ArticlesBy(a) |-> ViewsOf(x)], ArticlesBy(a))

ViewedAuthors == {a \in authors : \E x \in Viewed : x.author = a.id}

\* C3: every row of topAuthors is one author with the sum of the views of
\* exactly that author's articles, every author with a viewed article has a
\* row, and the rows are ordered by total_views descending.
C3_OneRowPerAuthor ==
    lastQuery = "select_most_viewed_authors" =>
        /\ Len(result) = Cardinality(ViewedAuthors)
        /\ \E g \in [1..Len(result) -> ViewedAuthors] :
              /\ \A i, j \in 1..Len(result) : i # j => g[i] # g[j]
              /\ \A i \in 1..Len(result) :
                    result[i] = [name |-> g[i].name,
                                 authors_total_pv |-> TotalViewsOf(g[i])]
        /\ \A i \in 1..(Len(result) - 1) :
              result[i].authors_total_pv >= result[i + 1].authors_total_pv

---------------------------------------------------------------------------
(* Claims about the error-rate statements.                                 *)

ErrorsOn(d) ==
    CountRows(log, {e \in BagToSet(log) :
                       e.time.day = d /\ e.status = "404 NOT FOUND"})
RequestsOn(d) == CountRows(log, {e \in BagToSet(log) : e.time.day = d})
DaysLogged == {d \in 0..MaxDay : RequestsOn(d) >= 1}

\* the rows r are the days above 1% (exactly 1% is left out), each once, in
\* ascending date order
IsHighErrorDays(r) ==
    /\ \A i \in DOMAIN r :
          /\ r[i].error_rate.num > r[i].error_rate.den
          /\ r[i].date.hour = 0
          /\ 100 * ErrorsOn(r[i].date.day) > RequestsOn(r[i].date.day)
    /\ \A d \in DaysLogged :
          100 * ErrorsOn(d) > RequestsOn(d)
              => \E i \in DOMAIN r : r[i].date = Midnight(d)
    /\ \A i, j \in DOMAIN r : i < j => r[i].date.day < r[j].date.day

\* C4: select_daily_error_rate_more_than_one_percent returns the days with
\* error_percentage > 1.0 (exactly 1% is left out), every such day, once,
\* in ascending date order.
C4_HighErrorDaysReturned ==
    CallEnded("select_daily_error_rate_more_than_one_percent") =>
        /\ exc = "none"
        /\ lastQuery = "select_daily_error_rate_more_than_one_percent"
        /\ IsHighErrorDays(result)

\* The statement of lines 68-73 where the database evaluates it returns
\* the days above 1%.
StatementHighErrorDays ==
    lastQuery = "select_daily_error_rate_more_than_one_percent" =>
        IsHighErrorDays(result)

\* the statement left out a day with exactly 1% errors and returned two
\* days above 1%
StatementHighErrorDaysAtOnePercent ==
    /\ lastQuery = "select_daily_error_rate_more_than_one_percent"
    /\ RequestsOn(0) = 100 /\ ErrorsOn(0) = 1
    /\ Len(result) = 2

\* C9: daily_error_rates has exactly one row per date with log rows; its
\* error_percentage is 100 x (rows with status '404 NOT FOUND') / (all rows of
\* the date), between 0 and 100; 5 x '200 OK' + 1 x '404 NOT FOUND' give 100/6.
C9_DailyErrorRates ==
    lastQuery = "daily_error_rates" =>
        /\ Len(result) = Cardinality(DaysLogged)
        /\ \A d \in DaysLogged :
              \E i \in DOMAIN result :
                  /\ result[i].date = Midnight(d)
                  /\ result[i].error_rate.den = RequestsOn(d)
                  /\ result[i].error_rate.num = 100 * ErrorsOn(d)
        /\ \A i \in DOMAIN result :
              /\ result[i].error_rate.den > 0
              /\ 0 <= result[i].error_rate.num
              /\ result[i].error_rate.num <= 100 * result[i].error_rate.den
        /\ log = OneErrorIn(6) => result = <<[date |-> Midnight(0),
                                              error_rate |-> Quotient(100, 6)]>>

\* the view was read on a log with 5 x '200 OK' and 1 x '404 NOT FOUND' on
\* day 0 at midnight, plus a request with another status later that day and
\* a request on another day
C9_Witness ==
    /\ lastQuery = "daily_error_rates"
    /\ RequestsOn(0) = 7 /\ ErrorsOn(0) = 1
    /\ \E e \in BagToSet(log) :
          e.time.day = 0 /\ e.time.hour # 0 /\ e.status \notin {"200 OK", "404 NOT FOUND"}
    /\ Len(result) = 2

=============================================================================
